---- MODULE Spec2Model ----
(***************************************************************************)
(* Model of the Google Drive backup tool (WTM_Backup_Tool_v1_9_1_EN.py):   *)
(* the checkpointed run state, the completion log, the circuit breaker,    *)
(* the per-file transfer pipeline run by pool workers, the recursive tree  *)
(* walker and the smart_backup entry point, together with process exit,    *)
(* crash and restart.                                                      *)
(***************************************************************************)
EXTENDS Integers, Sequences, FiniteSets, TLC

(***************************************************************************)
(* Program constants (CONFIGURATION section of the source).                *)
(***************************************************************************)
RATE_LIMIT_THRESHOLD == 3
RATE_LIMIT_COOLDOWN_HOURS == 24
RATE_LIMIT_WINDOW_SECONDS == 60
MAX_RETRIES == 3
INITIAL_BACKOFF == 2
MAX_BACKOFF == 300
MAX_FILE_HANDLES == 10

(***************************************************************************)
(* Bounds of the model.                                                    *)
(***************************************************************************)
\* largest size of the worker pool (max_workers, overridable configuration)
MaxWorkers == 2
\* Spec: process starts, clock advances, crashes, shutdown signals and
\* failing remote calls
MaxRuns == 2
MaxTicks == 1
MaxCrashes == 1
MaxSignals == 1
MaxFaults == 3
\* SpecResume: process starts and shutdown signals
MaxResumeRuns == 3
MaxResumeSignals == 2
\* SpecRetry: clock advances, shutdown signals and failing remote calls
MaxRetryTicks == 1
MaxRetrySignals == 1
MaxRetryFaults == 4
\* SpecAppend: process starts, shutdown signals and failing downloads
MaxAppendRuns == 3
MaxAppendSignals == 2
MaxAppendFaults == 3
\* SpecBackoff: the attempt numbers tried, and the number of equal steps
\* the values of random.random() in [0, 1) are drawn from
MaxBackoffAttempt == 8
RandomSteps == 8
\* SpecLive: process starts, shutdown signals and failing remote calls
MaxLiveRuns == 2
MaxLiveSignals == 1
MaxLiveFaults == 3
\* SpecWalk: shutdown signals and failing transfers
MaxWalkSignals == 1
MaxWalkFaults == 3
\* SpecIntegrity: shutdown signals and failing remote calls
MaxIntegritySignals == 1
MaxIntegrityFaults == 3
\* SpecPool: threads that call get_file_handle
MaxPoolWorkers == 11
\* SpecStore: calls of the mutation entry points, process starts, crashes
\* and failing writes
MaxStoreCalls == 3
MaxStoreRuns == 2
MaxStoreCrashes == 1
MaxStoreFaults == 1
\* SpecBreaker: clock advances and record_failure calls
MaxBreakerTicks == 4
MaxBreakerFailures == 6

(***************************************************************************)
(* The source tree (the remote input): root/{A/{f1,f2}, f3}, or, with two  *)
(* sibling folders, root/{A/{f1}, B/{f2}, f3}.                             *)
(***************************************************************************)
VARIABLE tree        \* which of the two the source is: "nested" or "siblings"

Trees == {"nested", "siblings"}
SOURCE_FOLDER_ID == "R"
Folders == IF tree = "siblings" THEN {"A", "B"} ELSE {"A"}
Files == {"f1", "f2", "f3"}
Names == {"n1", "n2", "n3"}
IsFolder(i) == i \in Folders \cup {SOURCE_FOLDER_ID}

\* what files().list returns for a folder, in the order it returns it
Children(folder) ==
    IF tree = "siblings"
    THEN CASE folder = "R" -> <<"A", "B", "f3">>
           [] folder = "A" -> <<"f1">>
           [] folder = "B" -> <<"f2">>
           [] OTHER -> <<>>
    ELSE CASE folder = "R" -> <<"A", "f3">>
           [] folder = "A" -> <<"f1", "f2">>
           [] OTHER -> <<>>

\* the source-declared size of a file, and of an interrupted download
FileSize(content) ==
    CASE content = "f1" -> 1
      [] content = "f2" -> 1
      [] content = "f3" -> 2
      [] OTHER -> 0

\* display names: all distinct, or f1 and f2 (siblings) carrying one name
DistinctNames == [f1 |-> "n1", f2 |-> "n2", f3 |-> "n3"]
SiblingNames == [f1 |-> "n1", f2 |-> "n1", f3 |-> "n3"]

None == <<>>
Absent == "absent"
NoTime == -1
BACKUP_PARENT_ID == <<"P", 0>>

VARIABLES
    \* ---- what survives the process: files on disk, the remote store, time
    state_file,      \* content of STATE_FILE
    log_file,        \* content of LOG_FILE: source id -> destination id
    remote,          \* destination objects that exist: [id, parent, content]
    staging,         \* local_temp_dir: file name -> content, or Absent
    now,             \* wall clock, seconds
    fname,           \* display name of every source file
    unreadable,      \* source files whose get_media always fails
    max_workers,     \* configured size of the worker pool
    \* ---- the process (one DriveBackupManager)
    alive,           \* a manager exists
    state,           \* BackupState.state
    backup_log,      \* backup_log['backed_up_files']: source id -> destination id
    cb,              \* CircuitBreaker
    shutdown_event,  \* shutdown_event.is_set()
    pc,              \* position of the main thread
    stack,           \* frames of backup_folder_recursive
    tasks,           \* the futures of the current batch
    yielded,         \* futures the as_completed loop has handed out
    outcome,         \* how the last smart_backup call ended
    \* ---- what is left of the model's budgets
    runs, ticks, crashes, signals, faults,
    \* ---- SpecBreaker: a caller that drives one CircuitBreaker directly
    ret,             \* the last call made on the breaker and what it returned
    recorded,        \* the time of every record_failure call so far
    \* ---- SpecPool: threads inside ResourceManager.get_file_handle
    pool,
    \* ---- SpecStore: threads inside BackupState's entry points and
    \* _save_log, the two locks and the two temp files
    store,
    \* ---- SpecBackoff: one call of _exponential_backoff and its result
    backoff

vars == <<state_file, log_file, remote, staging, now, fname, unreadable,
          max_workers, alive, state, backup_log, cb, shutdown_event, pc, stack, tasks, yielded, outcome,
          runs, ticks, crashes, signals, faults, ret, recorded, pool, store,
          tree, backoff>>

\* what no step of a backup changes: the configuration, and the state of
\* the callers of SpecBreaker, SpecPool and SpecStore
env == <<fname, unreadable, max_workers, ret, recorded, pool, store, tree,
        backoff>>
durable == <<state_file, log_file, remote, staging, now, env>>
counters == <<runs, ticks, crashes, signals, faults>>

(***************************************************************************)
(* Helpers on sequences and functions.                                     *)
(***************************************************************************)
Range(s) == {s[i] : i \in 1..Len(s)}
Contains(s, x) == \E i \in 1..Len(s) : s[i] = x

RECURSIVE FilterOut(_, _)
FilterOut(s, x) ==
    IF s = <<>> THEN <<>>
    ELSE IF Head(s) = x THEN FilterOut(Tail(s), x)
    ELSE <<Head(s)>> \o FilterOut(Tail(s), x)

RECURSIVE SelectSeqIn(_, _)
SelectSeqIn(s, S) ==
    IF s = <<>> THEN <<>>
    ELSE IF Head(s) \in S THEN <<Head(s)>> \o SelectSeqIn(Tail(s), S)
    ELSE SelectSeqIn(Tail(s), S)

Put(f, k, v) == [x \in DOMAIN f \cup {k} |-> IF x = k THEN v ELSE f[x]]

(***************************************************************************)
(* CircuitBreaker.                                                         *)
(***************************************************************************)
cooldown_seconds == RATE_LIMIT_COOLDOWN_HOURS * 3600

NewCircuitBreaker ==
    [state |-> "CLOSED", failures |-> <<>>, last_failure_time |-> NoTime]

\* mutant of record_success: a success never closes the breaker
record_success_Noop(b) == b

record_success_AnyState(b) == [b EXCEPT !.state = "CLOSED", !.failures = <<>>]
record_success(b) ==
    IF b.state = "HALF_OPEN"
    THEN [b EXCEPT !.state = "CLOSED", !.failures = <<>>]
    ELSE b

RECURSIVE PopOld(_, _)
PopOld(fs, cutoff) ==
    IF fs # <<>> /\ Head(fs) < cutoff THEN PopOld(Tail(fs), cutoff) ELSE fs

FailuresAfter(b, t) == PopOld(Append(b.failures, t), t - RATE_LIMIT_WINDOW_SECONDS)

\* the value record_failure returns
Tripped(b, t) == Len(FailuresAfter(b, t)) >= RATE_LIMIT_THRESHOLD

\* the breaker after record_failure
record_failure(b, t) ==
    [b EXCEPT !.last_failure_time = t,
              !.failures = FailuresAfter(b, t),
              !.state = IF Tripped(b, t) THEN "OPEN" ELSE @]

\* mutant of CooldownOver: the cooldown must be exceeded, not only reached
CooldownOver_Strict(b, t) ==
    b.last_failure_time # NoTime /\ t - b.last_failure_time > cooldown_seconds

CooldownOver(b, t) ==
    b.last_failure_time # NoTime /\ t - b.last_failure_time >= cooldown_seconds

\* the first component of what can_proceed returns
can_proceed(b, t) ==
    \/ b.state = "CLOSED"
    \/ b.state = "OPEN" /\ CooldownOver(b, t)
    \/ b.state = "HALF_OPEN"

\* the breaker after can_proceed
after_can_proceed(b, t) ==
    IF b.state = "OPEN" /\ CooldownOver(b, t)
    THEN [b EXCEPT !.state = "HALF_OPEN"]
    ELSE b

\* the second component of what can_proceed returns: None when allowed,
\* otherwise the numbers the message is built from (remaining seconds and
\* the time at which the cooldown ends)
NoReason == [remaining |-> NoTime, resume_after |-> NoTime]
reason(b, t) ==
    IF can_proceed(b, t) \/ b.last_failure_time = NoTime
    THEN NoReason
    ELSE [remaining |-> cooldown_seconds - (t - b.last_failure_time),
          resume_after |-> b.last_failure_time + cooldown_seconds]

\* no call made yet
NoCall == [op |-> "none", value |-> FALSE, reason |-> NoReason]

(***************************************************************************)
(* BackupState: every mutation saves the state file inside the lock.       *)
(***************************************************************************)
DefaultState ==
    [status |-> "new",
     backup_folder_id |-> None,
     pending_files |-> <<>>,
     failed_files |-> <<>>,
     total_files_processed |-> 0,
     circuit_breaker_state |-> "CLOSED",
     last_rate_limit_time |-> NoTime]

add_pending_Always(s, item) == [s EXCEPT !.pending_files = Append(@, item)]
add_pending(s, item) ==
    IF Contains(s.pending_files, item) THEN s
    ELSE [s EXCEPT !.pending_files = Append(@, item)]

add_failed(s, item) ==
    IF Contains(s.failed_files, item) THEN s
    ELSE [s EXCEPT !.failed_files = Append(@, item)]

remove_from_pending(s, file_id) ==
    [s EXCEPT !.pending_files = FilterOut(@, file_id)]

increment_processed(s) ==
    [s EXCEPT !.total_files_processed = @ + 1]

\* _save_state after a mutation: memory and file change together
SetState(s) == state' = s /\ state_file' = s

\* a file that does not exist, and a file that holds the beginning of a
\* JSON document (json.load raises on it)
NoFile == [absent |-> TRUE]
Torn == [torn |-> TRUE]

\* _load_state and _load_log: the file's content, or the default when the
\* file does not parse
load_state(f) == IF f = Torn THEN DefaultState ELSE f
load_log(f) == IF f = Torn THEN <<>> ELSE f

(***************************************************************************)
(* _exponential_backoff.  Seconds are counted in units of                  *)
(* 1 / (2 * RandomSteps), so that base * (0.5 + random()) is an integer    *)
(* for every value k / RandomSteps of random().                            *)
(***************************************************************************)
Min(a, b) == IF a <= b THEN a ELSE b
BackoffUnit == 2 * RandomSteps
\* min(INITIAL_BACKOFF * (2 ** attempt), MAX_BACKOFF), in seconds
BackoffBase(attempt) == Min(INITIAL_BACKOFF * (2 ^ attempt), MAX_BACKOFF)
Jittered_Full(base, k) == base * (2 * k)
\* backoff * (0.5 + random.random()), with random() = k / RandomSteps
Jittered(base, k) == base * (RandomSteps + 2 * k)
exponential_backoff(attempt, jitter, k) ==
    IF jitter THEN Jittered(BackoffBase(attempt), k)
    ELSE BackoffBase(attempt) * BackoffUnit
NoBackoff == [attempt |-> 0, jitter |-> FALSE, k |-> 0, result |-> NoTime]

(***************************************************************************)
(* ResourceManager.get_file_handle, by the number of threads at each       *)
(* point of it: checked (left the while loop, handle not opened yet),      *)
(* opened (handle open, not yet in active_handles), listed (open and in    *)
(* active_handles), closed (closed, still in active_handles).              *)
(***************************************************************************)
NoPool == [workers |-> 0, checked |-> 0, opened |-> 0, listed |-> 0, closed |-> 0]
\* len(self.active_handles)
ActiveHandles(p) == p.listed + p.closed
\* threads outside get_file_handle
PoolIdle(p) == p.workers - (p.checked + p.opened + p.listed + p.closed)

(***************************************************************************)
(* Threads of SpecStore: what each is calling and how far it got.          *)
(***************************************************************************)
StoreWorkers == {1, 2}
StoreItems == {"f1", "f2"}
StateOps == {"update", "add_pending", "add_failed", "remove_from_pending",
             "increment_processed"}
StoreOps == StateOps \cup {"save_log"}
\* pc: where the thread is; v: the counter value it read; saved: its
\* os.replace ran; failed: its write raised
Idle ==
    [pc |-> "idle", op |-> "none", arg |-> "none", v |-> 0, saved |-> FALSE,
     failed |-> FALSE]
\* the last return of an entry point: who, what, and whether it raised
NoReturn ==
    [w |-> 0, op |-> "none", arg |-> "none", saved |-> FALSE, failed |-> FALSE,
     raised |-> FALSE]
NoStore ==
    [lock |-> [state |-> 0, log |-> 0],
     tmp |-> [state |-> NoFile, log |-> NoFile],
     thr |-> [w \in StoreWorkers |-> Idle],
     calls |-> 0, incs |-> 0, last |-> NoReturn]


(***************************************************************************)
(* The remote store.                                                       *)
(***************************************************************************)
Copies(src) == {o \in remote : o.id[1] = src}
NextCopy(src) ==
    IF Copies(src) = {} THEN 1
    ELSE 1 + (CHOOSE k \in {o.id[2] : o \in Copies(src)} :
                 \A o \in Copies(src) : o.id[2] <= k)
\* the object files().create makes for source node src under parent
NewObject(src, parent, content) ==
    [id |-> <<src, NextCopy(src)>>, parent |-> parent, content |-> content]

(***************************************************************************)
(* Futures of a batch: process_files_batch submits one per list element.   *)
(***************************************************************************)
NewTask(item, backup_folder_id) ==
    [item |-> item, st |-> "queued", attempt |-> 0, rl |-> 0, local |-> FALSE,
     uploaded |-> None, result |-> "none", parent |-> backup_folder_id]

Submit(files, backup_folder_id) ==
    [i \in 1..Len(files) |-> NewTask(files[i], backup_folder_id)]

TaskIds == 1..Len(tasks)
RunningSts == {"dl", "trip_dl", "refused_dl", "after_dl",
               "ul", "trip_ul", "refused_ul", "after_ul"}
IsRunning(t) == tasks[t].st \in RunningSts
\* mutant of IsFinished: the executor does not wait for running workers
IsFinished_NoWait(t) == TRUE

IsFinished(t) == tasks[t].st \in {"done", "cancelled"}
NumRunning == Cardinality({t \in TaskIds : IsRunning(t)})
NumFinished == Cardinality({t \in TaskIds : IsFinished(t)})

LocalPath(t) == fname[tasks[t].item]

\* mutant of AlreadyBackedUp: the completion log is never consulted
AlreadyBackedUp_Never(item) == FALSE

\* item_id in self.backup_log['backed_up_files']
AlreadyBackedUp(item) == item \in DOMAIN backup_log

\* the finally clause of process_single_file: local_path and os.path.exists
FinallyStaging(t) ==
    IF tasks[t].local /\ staging[LocalPath(t)] # Absent
    THEN [staging EXCEPT ![LocalPath(t)] = Absent]
    ELSE staging

Finish_Abort(t, res) ==
    tasks' = [u \in TaskIds |->
                IF u = t THEN [tasks[u] EXCEPT !.st = "done", !.result = res]
                ELSE IF tasks[u].st = "queued"
                THEN [tasks[u] EXCEPT !.st = "cancelled"]
                ELSE tasks[u]]
\* process_single_file returns
Finish(t, res) ==
    tasks' = [tasks EXCEPT ![t].st = "done", ![t].result = res]

(***************************************************************************)
(* Process start, exit, crash; signals; the clock.                         *)
(***************************************************************************)
NoProcess ==
    /\ alive' = FALSE
    /\ state' = DefaultState
    /\ backup_log' = <<>>
    /\ cb' = NewCircuitBreaker
    /\ shutdown_event' = FALSE
    /\ pc' = "none"
    /\ stack' = <<>>
    /\ tasks' = <<>>
    /\ yielded' = 0
    /\ outcome' = "none"

\* nothing on disk, nothing at the destination, no process
InitProgram ==
    /\ state_file = DefaultState
    /\ log_file = <<>>
    /\ remote = {}
    /\ staging = [n \in Names |-> Absent]
    /\ now = 0
    /\ alive = FALSE
    /\ state = DefaultState
    /\ backup_log = <<>>
    /\ cb = NewCircuitBreaker
    /\ shutdown_event = FALSE
    /\ pc = "none"
    /\ stack = <<>>
    /\ tasks = <<>>
    /\ yielded = 0
    /\ outcome = "none"
    /\ ret = NoCall
    /\ recorded = <<>>

\* ... with no thread inside the handle pool or the state's entry points
InitSystem ==
    /\ InitProgram
    /\ pool = NoPool
    /\ store = NoStore
    /\ tree = "nested"
    /\ backoff = NoBackoff

Init ==
    /\ InitSystem
    /\ fname = DistinctNames
    /\ unreadable = {}
    /\ max_workers \in 1..MaxWorkers
    /\ runs = MaxRuns /\ ticks = MaxTicks /\ crashes = MaxCrashes
    /\ signals = MaxSignals /\ faults = MaxFaults

\* DriveBackupManager.__init__: load state and log, fresh breaker and event
StartProcess ==
    /\ ~alive
    /\ runs > 0
    /\ alive' = TRUE
    /\ state' = load_state(state_file)
    /\ backup_log' = load_log(log_file)
    /\ cb' = NewCircuitBreaker
    /\ shutdown_event' = FALSE
    /\ pc' = "ready"
    /\ stack' = <<>>
    /\ tasks' = <<>>
    /\ yielded' = 0
    /\ outcome' = "none"
    /\ runs' = runs - 1
    /\ UNCHANGED <<durable, ticks, crashes, signals, faults>>

\* the script ends; atexit runs _cleanup, which empties local_temp_dir
ExitProcess ==
    /\ alive
    /\ pc = "done"
    /\ NoProcess
    /\ staging' = [n \in Names |-> Absent]
    /\ UNCHANGED <<state_file, log_file, remote, now, env, counters>>

\* the process dies (runtime disconnected, unhandled exception): no cleanup
Crash ==
    /\ alive
    /\ pc \notin {"ready", "done"}
    /\ crashes > 0
    /\ NoProcess
    /\ crashes' = crashes - 1
    /\ UNCHANGED <<durable, runs, ticks, signals, faults>>

\* shutdown_handler: SIGINT or SIGTERM
Signal ==
    /\ alive
    /\ pc \notin {"ready", "done"}
    /\ ~shutdown_event
    /\ signals > 0
    /\ shutdown_event' = TRUE
    /\ signals' = signals - 1
    /\ UNCHANGED <<durable, alive, state, backup_log, cb, pc, stack, tasks,
                   yielded, outcome, runs, ticks, crashes, faults>>

TimeSteps == {RATE_LIMIT_WINDOW_SECONDS + 1, cooldown_seconds}

Tick ==
    /\ ticks > 0
    /\ \E d \in TimeSteps : now' = now + d
    /\ ticks' = ticks - 1
    /\ UNCHANGED <<state_file, log_file, remote, staging, env, alive, state,
                   backup_log, cb, shutdown_event, pc, stack, tasks, yielded,
                   outcome, runs, crashes, signals, faults>>


(***************************************************************************)
(* _handle_rate_limit, first half: record_failure and, on a trip, the      *)
(* state update.  The second half (shutdown_event.set()) is TripSet.       *)
(***************************************************************************)
\* mutant of PausedByTrip: a trip leaves the run state as it is
PausedByTrip_NoPause(s, t) == s

PausedByTrip(s, t) ==
    [s EXCEPT !.status = "paused",
              !.circuit_breaker_state = "OPEN",
              !.last_rate_limit_time = t]

(***************************************************************************)
(* process_single_file, run by a pool worker on one future.                *)
(***************************************************************************)
\* lines 936-957 and the entry of download_file (682-689)
PsfStart(t) ==
    /\ alive
    /\ tasks[t].st = "queued"
    /\ \A u \in TaskIds : u < t => tasks[u].st # "queued"
    /\ NumRunning < max_workers
    /\ IF shutdown_event
       THEN /\ SetState(add_pending(state, tasks[t].item))
            /\ Finish(t, "pending")
            /\ UNCHANGED cb
       ELSE IF AlreadyBackedUp(tasks[t].item)
       THEN /\ Finish(t, "skipped")
            /\ UNCHANGED <<state, state_file, cb>>
       ELSE /\ cb' = after_can_proceed(cb, now)
            /\ tasks' = [tasks EXCEPT ![t].st =
                            IF can_proceed(cb, now) THEN "dl" ELSE "refused_dl"]
            /\ UNCHANGED <<state, state_file>>
    /\ UNCHANGED <<log_file, remote, staging, now, env, alive, backup_log,
                   shutdown_event, pc, stack, yielded, outcome, counters>>

\* mutant of DlRetry: the loop never gives up
DlRetry_Forever(t, r) ==
    /\ staging' = [staging EXCEPT ![LocalPath(t)] = Absent]
    /\ tasks' = [tasks EXCEPT ![t].attempt = @ + 1, ![t].rl = @ + r]

\* the except branch of download_file after a failure that did not trip:
\* remove the staged file, then retry or give up.  r is 1 for a rate-limit
\* failure and 0 for any other; attempt = MAX_RETRIES marks a step that ran
\* out of attempts
DlRetry(t, r) ==
    /\ staging' = [staging EXCEPT ![LocalPath(t)] = Absent]
    /\ tasks' = IF tasks[t].attempt < MAX_RETRIES - 1
                THEN [tasks EXCEPT ![t].attempt = @ + 1, ![t].rl = @ + r]
                ELSE [tasks EXCEPT ![t].st = "after_dl",
                                   ![t].attempt = MAX_RETRIES, ![t].rl = @ + r]

\* what the chunk loop leaves in the staging file when no request fails:
\* the whole file, or, with the cancellation flag set, nothing of it
Received(t) == IF shutdown_event THEN "partial" ELSE tasks[t].item

\* the size check of download_file (729-735)
SizeVerified(t, content) == FileSize(content) = FileSize(tasks[t].item)

\* one pass of the retry loop of download_file (696-771)
DlAttempt(t, o) ==
    /\ alive
    /\ tasks[t].st = "dl"
    /\ \/ /\ o = "ok"
          /\ tasks[t].item \notin unreadable
          /\ IF SizeVerified(t, Received(t))
             THEN /\ staging' = [staging EXCEPT ![LocalPath(t)] = Received(t)]
                  /\ cb' = record_success(cb)
                  /\ tasks' = [tasks EXCEPT ![t].st = "after_dl",
                                  ![t].local = TRUE, ![t].attempt = 0,
                                  ![t].rl = 0]
                  /\ UNCHANGED <<state, state_file, faults>>
             ELSE /\ DlRetry(t, 0)
                  /\ UNCHANGED <<state, state_file, cb, faults>>
       \/ /\ o = "error"
          /\ tasks[t].item \in unreadable
          /\ DlRetry(t, 0)
          /\ UNCHANGED <<state, state_file, cb, faults>>
       \/ /\ o = "rate_limit"
          /\ faults > 0
          /\ faults' = faults - 1
          /\ cb' = record_failure(cb, now)
          /\ IF Tripped(cb, now)
             THEN /\ SetState(PausedByTrip(state, now))
                  /\ staging' = [staging EXCEPT ![LocalPath(t)] = "partial"]
                  /\ tasks' = [tasks EXCEPT ![t].st = "trip_dl", ![t].rl = @ + 1]
             ELSE /\ DlRetry(t, 1)
                  /\ UNCHANGED <<state, state_file>>
       \/ /\ o = "error"
          /\ tasks[t].item \notin unreadable
          /\ faults > 0
          /\ faults' = faults - 1
          /\ DlRetry(t, 0)
          /\ UNCHANGED <<state, state_file, cb>>
    /\ UNCHANGED <<log_file, remote, now, env, alive, backup_log,
                   shutdown_event, pc, stack, yielded, outcome,
                   runs, ticks, crashes, signals>>

\* _handle_rate_limit, second half (630-631), and the return None after it
TripSet(t) ==
    /\ alive
    /\ tasks[t].st \in {"trip_dl", "trip_ul"}
    /\ shutdown_event' = TRUE
    /\ tasks' = [tasks EXCEPT ![t].st =
                    IF tasks[t].st = "trip_dl" THEN "after_dl" ELSE "after_ul"]
    /\ UNCHANGED <<durable, alive, state, backup_log, cb, pc, stack, yielded,
                   outcome, counters>>

\* lines 967-976 and the entry of upload_file (789-796)
AfterDl(t) ==
    /\ alive
    /\ tasks[t].st \in {"after_dl", "refused_dl"}
    /\ IF shutdown_event
       THEN /\ SetState(add_pending(state, tasks[t].item))
            /\ Finish(t, "pending")
            /\ staging' = FinallyStaging(t)
            /\ UNCHANGED cb
       ELSE IF ~tasks[t].local \/ staging[LocalPath(t)] = Absent
       THEN /\ SetState(add_failed(state, tasks[t].item))
            /\ Finish(t, "failed")
            /\ UNCHANGED <<staging, cb>>
       ELSE /\ cb' = after_can_proceed(cb, now)
            /\ tasks' = [tasks EXCEPT ![t].st =
                            IF can_proceed(cb, now) THEN "ul" ELSE "refused_ul"]
            /\ UNCHANGED <<state, state_file, staging>>
    /\ UNCHANGED <<log_file, remote, now, env, alive, backup_log,
                   shutdown_event, pc, stack, yielded, outcome, counters>>

\* the except branch of upload_file after a failure that did not trip
UlRetry(t, r) ==
    tasks' = IF tasks[t].attempt < MAX_RETRIES - 1
             THEN [tasks EXCEPT ![t].attempt = @ + 1, ![t].rl = @ + r]
             ELSE [tasks EXCEPT ![t].st = "after_ul",
                                ![t].attempt = MAX_RETRIES, ![t].rl = @ + r]

Md5Matches_Unchecked(t) == staging[LocalPath(t)] # Absent
\* the checksum test of upload_file (823): the created object holds the
\* bytes of the staging file
Md5Matches(t) == staging[LocalPath(t)] = tasks[t].item

\* one pass of the retry loop of upload_file (801-868)
UlAttempt(t, o) ==
    /\ alive
    /\ tasks[t].st = "ul"
    /\ \/ /\ o = "ok"
          /\ Md5Matches(t)
          \* created, checksum equal
          /\ remote' = remote \cup
                 {NewObject(tasks[t].item, tasks[t].parent, staging[LocalPath(t)])}
          /\ cb' = record_success(cb)
          /\ tasks' = [tasks EXCEPT ![t].st = "after_ul", ![t].attempt = 0,
                          ![t].rl = 0,
                          ![t].uploaded = <<tasks[t].item, NextCopy(tasks[t].item)>>]
          /\ UNCHANGED <<state, state_file, faults>>
       \/ /\ o = "ok"
          /\ ~Md5Matches(t)
          \* no staged file (MediaFileUpload raises), or other bytes: created,
          \* checksum differs, deleted again
          /\ UlRetry(t, 0)
          /\ UNCHANGED <<state, state_file, cb, remote, faults>>
       \/ /\ o = "rate_limit"
          /\ faults > 0
          /\ faults' = faults - 1
          /\ cb' = record_failure(cb, now)
          /\ IF Tripped(cb, now)
             THEN /\ SetState(PausedByTrip(state, now))
                  /\ tasks' = [tasks EXCEPT ![t].st = "trip_ul", ![t].rl = @ + 1]
             ELSE /\ UlRetry(t, 1)
                  /\ UNCHANGED <<state, state_file>>
          /\ UNCHANGED remote
       \/ /\ o = "error"
          /\ faults > 0
          /\ faults' = faults - 1
          /\ UlRetry(t, 0)
          /\ UNCHANGED <<state, state_file, cb, remote>>
    /\ UNCHANGED <<log_file, staging, now, env, alive, backup_log,
                   shutdown_event, pc, stack, yielded, outcome,
                   runs, ticks, crashes, signals>>

\* lines 987-1037
AfterUl(t) ==
    /\ alive
    /\ tasks[t].st \in {"after_ul", "refused_ul"}
    /\ IF shutdown_event
       THEN /\ SetState(add_pending(state, tasks[t].item))
            /\ Finish(t, "pending")
            /\ staging' = FinallyStaging(t)
            /\ UNCHANGED <<backup_log, log_file>>
       ELSE IF tasks[t].uploaded = None
       THEN /\ SetState(add_failed(state, tasks[t].item))
            /\ Finish(t, "failed")
            /\ staging' = FinallyStaging(t)
            /\ UNCHANGED <<backup_log, log_file>>
       ELSE /\ backup_log' = Put(backup_log, tasks[t].item, tasks[t].uploaded)
            /\ log_file' = backup_log'
            /\ staging' = [staging EXCEPT ![LocalPath(t)] = Absent]
            /\ SetState(remove_from_pending(increment_processed(state),
                                            tasks[t].item))
            /\ Finish(t, "success")
    /\ UNCHANGED <<remote, now, env, alive, cb, shutdown_event, pc, stack,
                   yielded, outcome, counters>>


(***************************************************************************)
(* process_files_batch: the as_completed loop and the executor's exit.     *)
(***************************************************************************)
\* one iteration of the loop (1064-1080): a finished future is handed out
BatchYield ==
    /\ alive
    /\ pc = "batch"
    /\ NumFinished > yielded
    /\ IF shutdown_event
       THEN \* executor.shutdown(wait=False, cancel_futures=True); break
            /\ tasks' = [t \in TaskIds |->
                            IF tasks[t].st = "queued"
                            THEN [tasks[t] EXCEPT !.st = "cancelled"]
                            ELSE tasks[t]]
            /\ pc' = "batch_exit"
            /\ UNCHANGED yielded
       ELSE /\ yielded' = yielded + 1
            /\ pc' = IF yielded + 1 = Len(tasks) THEN "batch_exit" ELSE "batch"
            /\ UNCHANGED tasks
    /\ UNCHANGED <<durable, alive, state, backup_log, cb, shutdown_event,
                   stack, outcome, counters>>

\* leaving the with block waits for the running workers; then the caller
\* goes on: backup_folder_recursive returns, or smart_backup's resume branch
BatchReturn ==
    /\ alive
    /\ pc = "batch_exit"
    /\ \A t \in TaskIds : IsFinished(t)
    /\ IF stack = <<>>
       THEN pc' = "finish_resume" /\ UNCHANGED stack
       ELSE /\ stack' = SubSeq(stack, 1, Len(stack) - 1)
            /\ pc' = IF Len(stack) = 1 THEN "finish_new" ELSE "walk"
    /\ UNCHANGED <<durable, alive, state, backup_log, cb, shutdown_event,
                   tasks, yielded, outcome, counters>>

(***************************************************************************)
(* backup_folder_recursive: one frame per call.                            *)
(***************************************************************************)
Frame(src, dst) ==
    [src |-> src, dst |-> dst, phase |-> "enter", folders |-> <<>>,
     files |-> <<>>, idx |-> 1, child |-> None]

Top == stack[Len(stack)]
SetTop(f) == stack' = [stack EXCEPT ![Len(stack)] = f]
Return ==
    /\ stack' = SubSeq(stack, 1, Len(stack) - 1)
    /\ pc' = IF Len(stack) = 1 THEN "finish_new" ELSE "walk"

\* lines 1092-1107: the shutdown check and list_files_in_folder
WalkEnter(o) ==
    /\ alive
    /\ pc = "walk"
    /\ Top.phase = "enter"
    /\ \/ /\ o = "ok"
          /\ IF shutdown_event
             THEN Return
             ELSE /\ SetTop([Top EXCEPT
                        !.phase = "folders",
                        !.folders = SelectSeqIn(Children(Top.src), Folders),
                        !.files = SelectSeqIn(Children(Top.src), Files)])
                  /\ UNCHANGED pc
          /\ UNCHANGED faults
       \/ /\ o = "error"
          /\ ~shutdown_event
          /\ faults > 0
          /\ faults' = faults - 1
          \* HttpError: list_files_in_folder returns []
          /\ SetTop([Top EXCEPT !.phase = "folders"])
          /\ UNCHANGED pc
    /\ UNCHANGED <<durable, alive, state, backup_log, cb, shutdown_event,
                   tasks, yielded, outcome, runs, ticks, crashes, signals>>

\* one iteration of the folder loop (1110-1130), or, at its end, the file
\* batch (1144-1145)
WalkFolder(o) ==
    /\ alive
    /\ pc = "walk"
    /\ Top.phase = "folders"
    /\ IF shutdown_event \/ Top.idx > Len(Top.folders)
       THEN /\ o = "ok"
            /\ IF Top.files # <<>> /\ ~shutdown_event
               THEN /\ tasks' = Submit(Top.files, Top.dst)
                    /\ yielded' = 0
                    /\ pc' = "batch"
                    /\ UNCHANGED stack
               ELSE Return /\ UNCHANGED <<tasks, yielded>>
            /\ UNCHANGED <<remote, faults>>
       ELSE IF Top.folders[Top.idx] \in DOMAIN backup_log
       THEN /\ o = "ok"
            /\ SetTop([Top EXCEPT !.idx = @ + 1])
            /\ UNCHANGED <<remote, faults, tasks, yielded, pc>>
       ELSE \/ /\ o = "ok"
               /\ remote' = remote \cup
                      {NewObject(Top.folders[Top.idx], Top.dst, "folder")}
               /\ stack' = Append(
                      [stack EXCEPT ![Len(stack)] =
                          [Top EXCEPT !.phase = "mark",
                               !.child = <<Top.folders[Top.idx],
                                           NextCopy(Top.folders[Top.idx])>>]],
                      Frame(Top.folders[Top.idx],
                            <<Top.folders[Top.idx],
                              NextCopy(Top.folders[Top.idx])>>))
               /\ UNCHANGED <<faults, tasks, yielded, pc>>
            \/ /\ o = "error"
               /\ faults > 0
               /\ faults' = faults - 1
               \* create_folder returned None: nothing done for this folder
               /\ SetTop([Top EXCEPT !.idx = @ + 1])
               /\ UNCHANGED <<remote, tasks, yielded, pc>>
    /\ UNCHANGED <<state_file, log_file, staging, now, env, alive, state,
                   backup_log, cb, shutdown_event, outcome,
                   runs, ticks, crashes, signals>>

\* lines 1132-1141: the recursion has returned; record the folder
WalkMark ==
    /\ alive
    /\ pc = "walk"
    /\ Top.phase = "mark"
    /\ backup_log' = Put(backup_log, Top.folders[Top.idx], Top.child)
    /\ log_file' = backup_log'
    /\ SetTop([Top EXCEPT !.phase = "folders", !.idx = @ + 1, !.child = None])
    /\ UNCHANGED <<state_file, remote, staging, now, env, alive, state, cb,
                   shutdown_event, pc, tasks, yielded, outcome, counters>>

(***************************************************************************)
(* smart_backup.                                                           *)
(***************************************************************************)
\* all_retry = pending + failed
AllRetry(snapshot) == snapshot.pending_files \o snapshot.failed_files

\* the test that sends smart_backup into the resume branch (1157)
IsResume(snapshot) == snapshot.status = "paused"

\* lines 1154-1230, up to the first batch or the first frame
SmartBackup(o) ==
    /\ alive
    /\ pc = "ready"
    /\ IF IsResume(state)
       THEN /\ o = "ok"
            /\ cb' = after_can_proceed(cb, now)
            /\ IF ~can_proceed(cb, now)
               THEN /\ outcome' = "cooldown"
                    /\ pc' = "done"
                    /\ UNCHANGED <<tasks, yielded, state, state_file>>
               ELSE IF state.backup_folder_id = None
               THEN /\ outcome' = "no_folder"
                    /\ pc' = "done"
                    /\ UNCHANGED <<tasks, yielded, state, state_file>>
               ELSE IF AllRetry(state) # <<>>
               THEN /\ tasks' = Submit(AllRetry(state), state.backup_folder_id)
                    /\ yielded' = 0
                    /\ pc' = "batch"
                    /\ UNCHANGED <<outcome, state, state_file>>
               ELSE /\ SetState([state EXCEPT !.status = "completed"])
                    /\ outcome' = "resumed"
                    /\ pc' = "done"
                    /\ UNCHANGED <<tasks, yielded>>
            /\ UNCHANGED <<remote, stack, faults>>
       ELSE \/ /\ o = "ok"
               /\ remote' = remote \cup
                      {NewObject(SOURCE_FOLDER_ID, BACKUP_PARENT_ID, "folder")}
               /\ SetState([state EXCEPT
                      !.status = "in_progress",
                      !.backup_folder_id =
                          <<SOURCE_FOLDER_ID, NextCopy(SOURCE_FOLDER_ID)>>,
                      !.circuit_breaker_state = "CLOSED"])
               /\ stack' = <<Frame(SOURCE_FOLDER_ID,
                        <<SOURCE_FOLDER_ID, NextCopy(SOURCE_FOLDER_ID)>>)>>
               /\ pc' = "walk"
               /\ UNCHANGED <<outcome, tasks, yielded, cb, faults>>
            \/ /\ o = "error"
               /\ faults > 0
               /\ faults' = faults - 1
               \* get_file_info or create_folder returned None
               /\ outcome' = "failed"
               /\ pc' = "done"
               /\ UNCHANGED <<remote, state, state_file, stack, tasks,
                              yielded, cb>>
    /\ UNCHANGED <<log_file, staging, now, env, alive, backup_log,
                   shutdown_event, runs, ticks, crashes, signals>>

\* lines 1189-1201: after the retry batch
FinishResume ==
    /\ alive
    /\ pc = "finish_resume"
    /\ IF ~shutdown_event
       THEN SetState([state EXCEPT !.pending_files = <<>>,
                                   !.failed_files = <<>>,
                                   !.status = "completed",
                                   !.circuit_breaker_state = "CLOSED"])
       ELSE UNCHANGED <<state, state_file>>
    /\ outcome' = "resumed"
    /\ pc' = "done"
    /\ UNCHANGED <<log_file, remote, staging, now, env, alive, backup_log,
                   cb, shutdown_event, stack, tasks, yielded, counters>>

\* lines 1232-1246: after the walk
FinishNew ==
    /\ alive
    /\ pc = "finish_new"
    /\ log_file' = backup_log
    /\ SetState([state EXCEPT !.status =
                    IF shutdown_event THEN "paused" ELSE "completed"])
    /\ outcome' = "backed_up"
    /\ pc' = "done"
    /\ UNCHANGED <<remote, staging, now, env, alive, backup_log, cb,
                   shutdown_event, stack, tasks, yielded, counters>>

(***************************************************************************)
(* The system.                                                             *)
(***************************************************************************)
RemoteOutcomes == {"ok", "error"}
TransferOutcomes == {"ok", "error", "rate_limit"}

Next ==
    \/ StartProcess
    \/ ExitProcess
    \/ Crash
    \/ Signal
    \/ Tick
    \/ \E o \in RemoteOutcomes : SmartBackup(o)
    \/ \E o \in RemoteOutcomes : WalkEnter(o)
    \/ \E o \in RemoteOutcomes : WalkFolder(o)
    \/ WalkMark
    \/ BatchYield
    \/ BatchReturn
    \/ FinishResume
    \/ FinishNew
    \/ \E t \in TaskIds : PsfStart(t)
    \/ \E t \in TaskIds, o \in TransferOutcomes : DlAttempt(t, o)
    \/ \E t \in TaskIds : TripSet(t)
    \/ \E t \in TaskIds : AfterDl(t)
    \/ \E t \in TaskIds, o \in TransferOutcomes : UlAttempt(t, o)
    \/ \E t \in TaskIds : AfterUl(t)

Spec == Init /\ [][Next]_vars


(***************************************************************************)
(* SpecResume: three process starts and two shutdown signals, no crash, no *)
(* transient remote failure; one source file may be permanently            *)
(* unreadable (get_media fails on every attempt).                          *)
(***************************************************************************)
InitResume ==
    /\ InitSystem
    /\ fname = DistinctNames
    /\ unreadable \in {{}, {"f1"}, {"f3"}}
    /\ max_workers \in 1..MaxWorkers
    /\ runs = MaxResumeRuns /\ signals = MaxResumeSignals
    /\ ticks = 0 /\ crashes = 0 /\ faults = 0

NextResume ==
    \/ StartProcess
    \/ ExitProcess
    \/ Signal
    \/ SmartBackup("ok")
    \/ WalkEnter("ok")
    \/ WalkFolder("ok")
    \/ WalkMark
    \/ BatchYield
    \/ BatchReturn
    \/ FinishResume
    \/ FinishNew
    \/ \E t \in TaskIds : PsfStart(t)
    \/ \E t \in TaskIds, o \in RemoteOutcomes : DlAttempt(t, o)
    \/ \E t \in TaskIds : AfterDl(t)
    \/ \E t \in TaskIds : UlAttempt(t, "ok")
    \/ \E t \in TaskIds : AfterUl(t)

SpecResume == InitResume /\ [][NextResume]_vars

(***************************************************************************)
(* SpecAppend: SpecResume's runs on a source whose files are all readable, *)
(* with downloads that may fail for a while and succeed later.             *)
(***************************************************************************)
InitAppend ==
    /\ InitSystem
    /\ fname = DistinctNames
    /\ unreadable = {}
    /\ max_workers \in 1..MaxWorkers
    /\ runs = MaxAppendRuns /\ signals = MaxAppendSignals
    /\ ticks = 0 /\ crashes = 0 /\ faults = MaxAppendFaults

SpecAppend == InitAppend /\ [][NextResume]_vars

(***************************************************************************)
(* SpecWalk: one new run over either source tree; listing and folder       *)
(* creation succeed, a download or an upload may fail, and a shutdown      *)
(* signal may arrive.                                                      *)
(***************************************************************************)
InitWalk ==
    /\ InitProgram
    /\ pool = NoPool
    /\ store = NoStore
    /\ backoff = NoBackoff
    /\ tree \in Trees
    /\ fname = DistinctNames
    /\ unreadable = {}
    /\ max_workers \in 1..MaxWorkers
    /\ runs = 1 /\ crashes = 0 /\ ticks = 0
    /\ signals = MaxWalkSignals /\ faults = MaxWalkFaults

NextWalk ==
    \/ StartProcess
    \/ ExitProcess
    \/ Signal
    \/ SmartBackup("ok")
    \/ WalkEnter("ok")
    \/ WalkFolder("ok")
    \/ WalkMark
    \/ BatchYield
    \/ BatchReturn
    \/ FinishNew
    \/ \E t \in TaskIds : PsfStart(t)
    \/ \E t \in TaskIds, o \in RemoteOutcomes : DlAttempt(t, o)
    \/ \E t \in TaskIds : AfterDl(t)
    \/ \E t \in TaskIds, o \in RemoteOutcomes : UlAttempt(t, o)
    \/ \E t \in TaskIds : AfterUl(t)

SpecWalk == InitWalk /\ [][NextWalk]_vars

(***************************************************************************)
(* SpecMirror: one new run in which no remote call fails and nobody asks   *)
(* for cancellation; sibling files may carry the same display name.        *)
(***************************************************************************)
InitMirror ==
    /\ InitSystem
    /\ fname \in {DistinctNames, SiblingNames}
    /\ unreadable = {}
    /\ max_workers \in 1..MaxWorkers
    /\ runs = 1 /\ signals = 0 /\ ticks = 0 /\ crashes = 0 /\ faults = 0

NextMirror ==
    \/ StartProcess
    \/ ExitProcess
    \/ SmartBackup("ok")
    \/ WalkEnter("ok")
    \/ WalkFolder("ok")
    \/ WalkMark
    \/ BatchYield
    \/ BatchReturn
    \/ FinishNew
    \/ \E t \in TaskIds : PsfStart(t)
    \/ \E t \in TaskIds : DlAttempt(t, "ok")
    \/ \E t \in TaskIds : AfterDl(t)
    \/ \E t \in TaskIds : UlAttempt(t, "ok")
    \/ \E t \in TaskIds : AfterUl(t)

SpecMirror == InitMirror /\ [][NextMirror]_vars

(***************************************************************************)
(* SpecBreaker: one CircuitBreaker driven by a caller that makes any       *)
(* sequence of record_failure, record_success and can_proceed calls while  *)
(* time passes.  ticks bounds the clock advances, faults the               *)
(* record_failure calls.                                                   *)
(***************************************************************************)
InitBreaker ==
    /\ InitSystem
    /\ fname = DistinctNames
    /\ unreadable = {}
    /\ max_workers = 1
    /\ runs = 0 /\ signals = 0 /\ crashes = 0
    /\ ticks = MaxBreakerTicks /\ faults = MaxBreakerFailures

BreakerFrame ==
    UNCHANGED <<state_file, log_file, remote, staging, fname, unreadable,
                max_workers, alive, state, backup_log, shutdown_event, pc,
                stack, tasks, yielded, outcome, runs, crashes, signals,
                pool, store, tree, backoff>>

\* time.sleep between two calls
BreakerSteps == {1, RATE_LIMIT_WINDOW_SECONDS - 1, cooldown_seconds - 1}

Elapse ==
    /\ ticks > 0
    /\ \E d \in BreakerSteps : now' = now + d
    /\ ticks' = ticks - 1
    /\ UNCHANGED <<cb, faults, ret, recorded>>
    /\ BreakerFrame

RecordFailure ==
    /\ faults > 0
    /\ faults' = faults - 1
    /\ cb' = record_failure(cb, now)
    /\ ret' = [op |-> "record_failure", value |-> Tripped(cb, now),
               reason |-> NoReason]
    /\ recorded' = Append(recorded, now)
    /\ UNCHANGED <<now, ticks>>
    /\ BreakerFrame

RecordSuccess ==
    /\ cb' = record_success(cb)
    /\ ret' = [op |-> "record_success", value |-> TRUE, reason |-> NoReason]
    /\ UNCHANGED <<now, ticks, faults, recorded>>
    /\ BreakerFrame

CanProceed ==
    /\ cb' = after_can_proceed(cb, now)
    /\ ret' = [op |-> "can_proceed", value |-> can_proceed(cb, now),
               reason |-> reason(cb, now)]
    /\ UNCHANGED <<now, ticks, faults, recorded>>
    /\ BreakerFrame

NextBreaker ==
    \/ Elapse
    \/ RecordFailure
    \/ RecordSuccess
    \/ CanProceed

SpecBreaker == InitBreaker /\ [][NextBreaker]_vars

(***************************************************************************)
(* SpecRetry: one process, no crash; remote calls may fail, the clock may  *)
(* advance and a shutdown signal may arrive.                               *)
(***************************************************************************)
InitRetry ==
    /\ InitSystem
    /\ fname = DistinctNames
    /\ unreadable = {}
    /\ max_workers \in 1..MaxWorkers
    /\ runs = 1 /\ crashes = 0
    /\ ticks = MaxRetryTicks /\ signals = MaxRetrySignals
    /\ faults = MaxRetryFaults

NextRetry ==
    \/ StartProcess
    \/ ExitProcess
    \/ Signal
    \/ Tick
    \/ \E o \in RemoteOutcomes : SmartBackup(o)
    \/ \E o \in RemoteOutcomes : WalkEnter(o)
    \/ \E o \in RemoteOutcomes : WalkFolder(o)
    \/ WalkMark
    \/ BatchYield
    \/ BatchReturn
    \/ FinishNew
    \/ \E t \in TaskIds : PsfStart(t)
    \/ \E t \in TaskIds, o \in TransferOutcomes : DlAttempt(t, o)
    \/ \E t \in TaskIds : TripSet(t)
    \/ \E t \in TaskIds : AfterDl(t)
    \/ \E t \in TaskIds, o \in TransferOutcomes : UlAttempt(t, o)
    \/ \E t \in TaskIds : AfterUl(t)

SpecRetry == InitRetry /\ [][NextRetry]_vars

(***************************************************************************)
(* SpecIntegrity: SpecRetry's process on a source whose files f1 and f2    *)
(* may carry one display name, so that a staging file can hold another     *)
(* file's bytes.                                                           *)
(***************************************************************************)
InitIntegrity ==
    /\ InitSystem
    /\ fname \in {DistinctNames, SiblingNames}
    /\ unreadable = {}
    /\ max_workers \in 1..MaxWorkers
    /\ runs = 1 /\ crashes = 0
    /\ ticks = 0 /\ signals = MaxIntegritySignals
    /\ faults = MaxIntegrityFaults

NextIntegrity ==
    \/ StartProcess
    \/ ExitProcess
    \/ Signal
    \/ \E o \in RemoteOutcomes : SmartBackup(o)
    \/ \E o \in RemoteOutcomes : WalkEnter(o)
    \/ \E o \in RemoteOutcomes : WalkFolder(o)
    \/ WalkMark
    \/ BatchYield
    \/ BatchReturn
    \/ FinishNew
    \/ \E t \in TaskIds : PsfStart(t)
    \/ \E t \in TaskIds, o \in TransferOutcomes : DlAttempt(t, o)
    \/ \E t \in TaskIds : TripSet(t)
    \/ \E t \in TaskIds : AfterDl(t)
    \/ \E t \in TaskIds, o \in TransferOutcomes : UlAttempt(t, o)
    \/ \E t \in TaskIds : AfterUl(t)

SpecIntegrity == InitIntegrity /\ [][NextIntegrity]_vars

(***************************************************************************)
(* SpecHang: SpecIntegrity's process under a fair scheduler.  Every thread  *)
(* that can take a step eventually takes one, but the remote calls of the  *)
(* first future of a batch are exempt: such a call may never return.       *)
(* SpecLive: every remote call returns, and a second process may resume    *)
(* what the first left paused.                                             *)
(***************************************************************************)
HungTask == 1

\* every step but a remote call of the hung future
Responsive ==
    \/ StartProcess
    \/ ExitProcess
    \/ Signal
    \/ \E o \in RemoteOutcomes : SmartBackup(o)
    \/ \E o \in RemoteOutcomes : WalkEnter(o)
    \/ \E o \in RemoteOutcomes : WalkFolder(o)
    \/ WalkMark
    \/ BatchYield
    \/ BatchReturn
    \/ FinishNew
    \/ \E t \in TaskIds : PsfStart(t)
    \/ \E t \in TaskIds \ {HungTask}, o \in TransferOutcomes : DlAttempt(t, o)
    \/ \E t \in TaskIds : TripSet(t)
    \/ \E t \in TaskIds : AfterDl(t)
    \/ \E t \in TaskIds \ {HungTask}, o \in TransferOutcomes : UlAttempt(t, o)
    \/ \E t \in TaskIds : AfterUl(t)

SpecHang == InitIntegrity /\ [][NextIntegrity]_vars /\ WF_vars(Responsive)

InitLive ==
    /\ InitSystem
    /\ fname = DistinctNames
    /\ unreadable = {}
    /\ max_workers \in 1..MaxWorkers
    /\ runs = MaxLiveRuns /\ crashes = 0
    /\ ticks = 0 /\ signals = MaxLiveSignals
    /\ faults = MaxLiveFaults

NextLive ==
    \/ NextIntegrity
    \/ FinishResume

SpecLive == InitLive /\ [][NextLive]_vars /\ WF_vars(NextLive)

\* lines 1232-1246 when the write of the state file fails: _save_state
\* prints the error (389-391) and update returns, so smart_backup returns
\* with the final status in memory only
FinishNewUnsaved ==
    /\ alive
    /\ pc = "finish_new"
    /\ faults > 0
    /\ faults' = faults - 1
    /\ log_file' = backup_log
    /\ state' = [state EXCEPT !.status =
                    IF shutdown_event THEN "paused" ELSE "completed"]
    /\ outcome' = "backed_up"
    /\ pc' = "done"
    /\ UNCHANGED <<state_file, remote, staging, now, env, alive, backup_log,
                   cb, shutdown_event, stack, tasks, yielded, runs, ticks,
                   crashes, signals>>

NextUnsaved ==
    \/ NextLive
    \/ FinishNewUnsaved

\* SpecLive with a disk that may refuse the final write of the state file
SpecUnsaved == InitLive /\ [][NextUnsaved]_vars /\ WF_vars(NextLive)

(***************************************************************************)
(* SpecStore: two threads of one process call the entry points of          *)
(* BackupState and the log checkpoint of process_single_file, one          *)
(* statement at a time.  A write may fail, the process may be killed at    *)
(* any point and started again.                                            *)
(***************************************************************************)
InitStore ==
    /\ InitProgram
    /\ fname = DistinctNames
    /\ unreadable = {}
    /\ max_workers = 2
    /\ tree = "nested"
    /\ backoff = NoBackoff
    /\ ticks = 0 /\ signals = 0
    /\ runs = MaxStoreRuns /\ crashes = MaxStoreCrashes
    /\ faults = MaxStoreFaults
    /\ pool = NoPool
    /\ store = [NoStore EXCEPT !.calls = MaxStoreCalls]

StoreFrame ==
    UNCHANGED <<remote, staging, now, fname, unreadable, max_workers, cb,
                shutdown_event, pc, stack, tasks, yielded, outcome, ticks,
                signals, ret, recorded, pool, tree, backoff>>

Thr(w) == store.thr[w]
\* the lock, the temp file and the committed file an entry point works on
Which(op) == IF op = "save_log" THEN "log" ELSE "state"
\* what json.dump writes
Memory(k) == IF k = "log" THEN backup_log ELSE state
StoreArgs(op) ==
    CASE op = "update" -> {"in_progress", "paused"}
      [] op = "increment_processed" -> {"none"}
      [] OTHER -> StoreItems

\* the lock is free, or held by this thread (RLock)
LockFree(k, w) == store.lock[k] \in {0, w}
CanAcquire_Always(w) == TRUE
\* with self.lock: / with self.log_lock:
CanAcquire(w) == LockFree(Which(Thr(w).op), w)

\* the body of an entry point between the lock and _save_state; v is the
\* counter value read by +=
Apply(op, arg, v, s) ==
    CASE op = "update" -> [s EXCEPT !.status = arg]
      [] op = "add_pending" -> add_pending(s, arg)
      [] op = "add_failed" -> add_failed(s, arg)
      [] op = "remove_from_pending" -> remove_from_pending(s, arg)
      [] op = "increment_processed" -> [s EXCEPT !.total_files_processed = v + 1]
      [] OTHER -> s
\* add_pending and add_failed save only when they appended
Saves(op, arg, s) ==
    CASE op = "add_pending" -> ~Contains(s.pending_files, arg)
      [] op = "add_failed" -> ~Contains(s.failed_files, arg)
      [] OTHER -> TRUE

\* a process starts: BackupState.__init__ and _load_log read the files
StoreLoad ==
    /\ ~alive
    /\ runs > 0
    /\ alive' = TRUE
    /\ runs' = runs - 1
    /\ state' = load_state(state_file)
    /\ backup_log' = load_log(log_file)
    /\ store' = [store EXCEPT !.incs = state'.total_files_processed]
    /\ UNCHANGED <<state_file, log_file, crashes, faults>>
    /\ StoreFrame

\* the process is killed: memory, threads and locks are gone, the files
\* stay as they are
StoreCrash ==
    /\ alive
    /\ crashes > 0
    /\ alive' = FALSE
    /\ crashes' = crashes - 1
    /\ state' = DefaultState
    /\ backup_log' = <<>>
    /\ store' = [store EXCEPT !.lock = NoStore.lock, !.thr = NoStore.thr,
                              !.incs = 0, !.last = NoReturn]
    /\ UNCHANGED <<state_file, log_file, runs, faults>>
    /\ StoreFrame

\* a thread calls an entry point; for the log checkpoint it first records
\* the file in backup_log under log_lock (l.999-1007)
StoreCall(w, op, arg) ==
    /\ alive
    /\ store.calls > 0
    /\ Thr(w).pc = "idle"
    /\ op = "save_log" => LockFree("log", w)
    /\ backup_log' = IF op = "save_log" THEN Put(backup_log, arg, <<arg, 1>>)
                     ELSE backup_log
    /\ store' = [store EXCEPT !.calls = @ - 1,
                              !.thr[w] = [Idle EXCEPT !.pc = "wait", !.op = op,
                                                      !.arg = arg]]
    /\ UNCHANGED <<state_file, log_file, alive, state, runs, crashes, faults>>
    /\ StoreFrame

\* with self.lock: entered
StoreAcquire(w) ==
    /\ alive
    /\ Thr(w).pc = "wait"
    /\ CanAcquire(w)
    /\ store' = [store EXCEPT !.lock[Which(Thr(w).op)] = w,
                              !.thr[w].pc = "locked"]
    /\ UNCHANGED <<state_file, log_file, alive, state, backup_log, runs,
                   crashes, faults>>
    /\ StoreFrame

\* self.state['total_files_processed'] += 1, the read
StoreRead(w) ==
    /\ alive
    /\ Thr(w).pc = "locked"
    /\ Thr(w).op = "increment_processed"
    /\ store' = [store EXCEPT !.thr[w].pc = "read",
                              !.thr[w].v = state.total_files_processed]
    /\ UNCHANGED <<state_file, log_file, alive, state, backup_log, runs,
                   crashes, faults>>
    /\ StoreFrame

\* the change of self.state (for += 1, the store); then either
\* _save_state starts or the entry point has nothing to save
StoreMutate(w) ==
    /\ alive
    /\ Thr(w).pc = IF Thr(w).op = "increment_processed" THEN "read" ELSE "locked"
    /\ state' = Apply(Thr(w).op, Thr(w).arg, Thr(w).v, state)
    /\ store' = [store EXCEPT
                    !.thr[w].pc = IF Saves(Thr(w).op, Thr(w).arg, state)
                                  THEN "mutated" ELSE "return",
                    !.incs = IF Thr(w).op = "increment_processed" THEN @ + 1
                             ELSE @]
    /\ UNCHANGED <<state_file, log_file, alive, backup_log, runs, crashes,
                   faults>>
    /\ StoreFrame

\* open(temp_file, 'w') and the first bytes of json.dump
StoreWriteTemp(w) ==
    /\ alive
    /\ Thr(w).pc = "mutated"
    /\ store' = [store EXCEPT !.tmp[Which(Thr(w).op)] = Torn,
                              !.thr[w].pc = "writing"]
    /\ UNCHANGED <<state_file, log_file, alive, state, backup_log, runs,
                   crashes, faults>>
    /\ StoreFrame

\* json.dump ends and the with block closes the temp file
StoreWriteDone(w) ==
    /\ alive
    /\ Thr(w).pc = "writing"
    /\ store' = [store EXCEPT !.tmp[Which(Thr(w).op)] = Memory(Which(Thr(w).op)),
                              !.thr[w].pc = "written"]
    /\ UNCHANGED <<state_file, log_file, alive, state, backup_log, runs,
                   crashes, faults>>
    /\ StoreFrame

Replaceable_Early(w) == Thr(w).pc \in {"writing", "written"}
\* os.replace runs after the with block
Replaceable(w) == Thr(w).pc = "written"

\* os.replace(temp_file, self.state_file)
StoreReplace(w) ==
    /\ alive
    /\ Replaceable(w)
    /\ IF Which(Thr(w).op) = "log"
       THEN log_file' = store.tmp.log /\ UNCHANGED state_file
       ELSE state_file' = store.tmp.state /\ UNCHANGED log_file
    /\ store' = [store EXCEPT !.tmp[Which(Thr(w).op)] = NoFile,
                              !.thr[w].pc = "return",
                              !.thr[w].saved = TRUE]
    /\ UNCHANGED <<alive, state, backup_log, runs, crashes, faults>>
    /\ StoreFrame

\* open, json.dump or os.replace raises (unwritable medium); the except
\* clause prints and the save ends
StoreWriteFail(w) ==
    /\ alive
    /\ Thr(w).pc \in {"mutated", "writing", "written"}
    /\ faults > 0
    /\ faults' = faults - 1
    /\ store' = [store EXCEPT !.thr[w].pc = "return", !.thr[w].failed = TRUE]
    /\ UNCHANGED <<state_file, log_file, alive, state, backup_log, runs,
                   crashes>>
    /\ StoreFrame

\* the with block ends and the entry point returns; nothing is raised
StoreReturn(w) ==
    /\ alive
    /\ Thr(w).pc = "return"
    /\ store' = [store EXCEPT
                    !.lock[Which(Thr(w).op)] = IF @ = w THEN 0 ELSE @,
                    !.thr[w] = Idle,
                    !.last = [w |-> w, op |-> Thr(w).op, arg |-> Thr(w).arg,
                              saved |-> Thr(w).saved, failed |-> Thr(w).failed,
                              raised |-> FALSE]]
    /\ UNCHANGED <<state_file, log_file, alive, state, backup_log, runs,
                   crashes, faults>>
    /\ StoreFrame

NextStore ==
    \/ StoreLoad
    \/ StoreCrash
    \/ \E w \in StoreWorkers : \E op \in StoreOps : \E arg \in StoreArgs(op) :
          StoreCall(w, op, arg)
    \/ \E w \in StoreWorkers : StoreAcquire(w)
    \/ \E w \in StoreWorkers : StoreRead(w)
    \/ \E w \in StoreWorkers : StoreMutate(w)
    \/ \E w \in StoreWorkers : StoreWriteTemp(w)
    \/ \E w \in StoreWorkers : StoreWriteDone(w)
    \/ \E w \in StoreWorkers : StoreReplace(w)
    \/ \E w \in StoreWorkers : StoreWriteFail(w)
    \/ \E w \in StoreWorkers : StoreReturn(w)

SpecStore == InitStore /\ [][NextStore]_vars

(***************************************************************************)
(* SpecBackoff: one call of _exponential_backoff for every attempt number  *)
(* up to MaxBackoffAttempt, with and without jitter, for every value of    *)
(* random().                                                               *)
(***************************************************************************)
InitBackoff ==
    /\ InitProgram
    /\ fname = DistinctNames
    /\ unreadable = {}
    /\ max_workers = 1
    /\ tree = "nested"
    /\ pool = NoPool
    /\ store = NoStore
    /\ runs = 0 /\ ticks = 0 /\ crashes = 0 /\ signals = 0 /\ faults = 0
    /\ \E a \in 0..MaxBackoffAttempt, j \in BOOLEAN, k \in 0..(RandomSteps - 1) :
          backoff = [attempt |-> a, jitter |-> j, k |-> k, result |-> NoTime]

\* backoff = self._exponential_backoff(attempt)
Backoff ==
    /\ backoff.result = NoTime
    /\ backoff' = [backoff EXCEPT
                      !.result = exponential_backoff(backoff.attempt,
                                                     backoff.jitter, backoff.k)]
    /\ UNCHANGED <<state_file, log_file, remote, staging, now, fname,
                   unreadable, max_workers, alive, state, backup_log, cb,
                   shutdown_event, pc, stack, tasks, yielded, outcome,
                   counters, ret, recorded, pool, store, tree>>

SpecBackoff == InitBackoff /\ [][Backoff]_vars

(***************************************************************************)
(* SpecPool: any number of threads up to MaxPoolWorkers go through         *)
(* get_file_handle, one statement at a time.  The length test of the       *)
(* while loop is made without the lock; only the append and the remove     *)
(* hold it.                                                                *)
(***************************************************************************)
InitPool ==
    /\ InitProgram
    /\ fname = DistinctNames
    /\ unreadable = {}
    /\ max_workers = 1
    /\ tree = "nested"
    /\ backoff = NoBackoff
    /\ runs = 0 /\ ticks = 0 /\ crashes = 0 /\ signals = 0 /\ faults = 0
    /\ \E n \in 1..MaxPoolWorkers : pool = [NoPool EXCEPT !.workers = n]
    /\ store = NoStore

PoolFrame ==
    UNCHANGED <<state_file, log_file, remote, staging, now, fname, unreadable,
                max_workers, alive, state, backup_log, cb, shutdown_event, pc,
                stack, tasks, yielded, outcome, counters, ret, recorded, store,
                tree, backoff>>

\* while len(self.active_handles) >= self.max_file_handles: false, the
\* thread leaves the loop
PoolPass ==
    /\ PoolIdle(pool) > 0
    /\ ActiveHandles(pool) < MAX_FILE_HANDLES
    /\ pool' = [pool EXCEPT !.checked = @ + 1]
    /\ PoolFrame

\* the test is true: sleep, then _cleanup_closed_handles drops the closed
\* handles from the list (their owners' remove finds nothing to do)
PoolWait ==
    /\ PoolIdle(pool) > 0
    /\ ActiveHandles(pool) >= MAX_FILE_HANDLES
    /\ pool' = [pool EXCEPT !.closed = 0]
    /\ PoolFrame

\* handle = open(path, mode)
PoolOpen ==
    /\ pool.checked > 0
    /\ pool' = [pool EXCEPT !.checked = @ - 1, !.opened = @ + 1]
    /\ PoolFrame

\* with self.lock: self.active_handles.append(handle)
PoolAppend ==
    /\ pool.opened > 0
    /\ pool' = [pool EXCEPT !.opened = @ - 1, !.listed = @ + 1]
    /\ PoolFrame

\* finally: handle.close()
PoolClose ==
    /\ pool.listed > 0
    /\ pool' = [pool EXCEPT !.listed = @ - 1, !.closed = @ + 1]
    /\ PoolFrame

\* with self.lock: self.active_handles.remove(handle)
PoolRemove ==
    /\ pool.closed > 0
    /\ pool' = [pool EXCEPT !.closed = @ - 1]
    /\ PoolFrame

NextPool ==
    \/ PoolPass
    \/ PoolWait
    \/ PoolOpen
    \/ PoolAppend
    \/ PoolClose
    \/ PoolRemove

SpecPool == InitPool /\ [][NextPool]_vars


(***************************************************************************)
(* Vocabulary of the claims.                                               *)
(***************************************************************************)
\* this step is worker t entering process_single_file
Starts(t) ==
    /\ t \in TaskIds
    /\ tasks[t].st = "queued"
    /\ t \in 1..Len(tasks')
    /\ tasks'[t].st \notin {"queued", "cancelled"}

\* this step is a call of smart_backup
Invoked == pc = "ready" /\ alive' /\ pc' # "ready"

DestinationsOf(src) == {o \in remote : o.id[1] = src}
InPending(s, f) == Contains(s.pending_files, f)
InFailed(s, f) == Contains(s.failed_files, f)
FilesOf(folder) == Range(SelectSeqIn(Children(folder), Files))
FoldersOf(folder) == Range(SelectSeqIn(Children(folder), Folders))
SourceParent(i) ==
    CHOOSE p \in Folders \cup {SOURCE_FOLDER_ID} : i \in Range(Children(p))
InResumeBatch ==
    stack = <<>> /\ pc \in {"batch", "batch_exit", "finish_resume"}

(***************************************************************************)
(* C1 (as amended).  For a file whose id already has a completion record,  *)
(* process_single_file starts no download and no upload and leaves the     *)
(* completion log unchanged; it returns success when the cancellation flag *)
(* is not set, and when the flag is set it records the node in             *)
(* pending_files and returns failure.                                      *)
(***************************************************************************)
C1_SkipNoTransfer ==
    [][\A t \in TaskIds :
          (Starts(t) /\ tasks[t].item \in DOMAIN backup_log) =>
              /\ tasks'[t].st = "done"
              /\ remote' = remote /\ staging' = staging
              /\ backup_log' = backup_log /\ log_file' = log_file
              /\ IF shutdown_event
                 THEN /\ tasks'[t].result = "pending"
                      /\ InPending(state_file', tasks[t].item)
                 ELSE /\ tasks'[t].result = "skipped"
                      /\ state_file' = state_file]_vars

\* a worker has skipped a file that was already recorded
C1_Witness ==
    \E t \in TaskIds :
        /\ tasks[t].result = "skipped"
        /\ tasks[t].item \in DOMAIN log_file

\* C1 as stated: a file with a completion record always returns success,
\* with no transfer and the completion log unchanged
C1_Original ==
    [][\A t \in TaskIds :
          (Starts(t) /\ tasks[t].item \in DOMAIN backup_log) =>
              /\ tasks'[t].st = "done"
              /\ tasks'[t].result = "skipped"
              /\ remote' = remote /\ staging' = staging
              /\ backup_log' = backup_log /\ log_file' = log_file]_vars

(***************************************************************************)
(* C2.  At-most-once transfer: every source file has at most one           *)
(* destination object that was created and not deleted.                    *)
(***************************************************************************)
C2_AtMostOnce ==
    \A f \in Files : Cardinality(DestinationsOf(f)) <= 1

(***************************************************************************)
(* C3.  Cooldown survives restart: once a trip has persisted               *)
(* status=paused, a call of smart_backup made before cooldown_seconds have *)
(* elapsed since the trip is refused: it reports the cooldown, starts no   *)
(* transfer and leaves the run state as it is.                             *)
(***************************************************************************)
C3_CooldownSurvivesRestart ==
    [][(/\ Invoked
        /\ state_file.status = "paused"
        /\ state_file.last_rate_limit_time # NoTime
        /\ now - state_file.last_rate_limit_time < cooldown_seconds) =>
           /\ outcome' = "cooldown"
           /\ tasks' = <<>>
           /\ state_file' = state_file]_vars

(***************************************************************************)
(* C4.  Nothing is dropped on terminal failure: a file recorded in         *)
(* failed_files stays there until it has a completion record, also across  *)
(* a resume pass.                                                          *)
(***************************************************************************)
C4_FailedKept ==
    [][\A f \in Files :
          InFailed(state_file, f) =>
              InFailed(state_file', f) \/ f \in DOMAIN log_file']_vars

(***************************************************************************)
(* C5.  Cancelled work is kept: when smart_backup has returned, every      *)
(* future of the batch that was cancelled before it started has its item   *)
(* in pending_files.                                                       *)
(***************************************************************************)
C5_CancelledKept ==
    pc = "done" =>
        \A t \in TaskIds :
            tasks[t].st = "cancelled" => InPending(state_file, tasks[t].item)

(***************************************************************************)
(* C6.  Completed means mirrored: whenever the persisted status is         *)
(* completed, every source file has a completion record or is in           *)
(* failed_files.                                                           *)
(***************************************************************************)
C6_CompletedMeansMirrored ==
    state_file.status = "completed" =>
        \A f \in Files : f \in DOMAIN log_file \/ InFailed(state_file, f)

(***************************************************************************)
(* C7.  Resume correctness: the retry batch holds the nodes of pending and *)
(* failed, each once; and when every one of them has succeeded and         *)
(* cancellation was never requested, the persisted status is completed and *)
(* pending_files and failed_files are empty.                               *)
(***************************************************************************)
C7_ResumeCorrect ==
    /\ InResumeBatch =>
          \A i, j \in TaskIds : i # j => tasks[i].item # tasks[j].item
    /\ (/\ pc = "done" /\ outcome = "resumed" /\ ~shutdown_event
        /\ \A t \in TaskIds : tasks[t].result \in {"success", "skipped"}) =>
          /\ state_file.status = "completed"
          /\ state_file.pending_files = <<>>
          /\ state_file.failed_files = <<>>

(***************************************************************************)
(* C8.  A call of smart_backup that finds status=in_progress resumes that  *)
(* run: it creates no destination object and keeps the stored destination  *)
(* root.                                                                   *)
(***************************************************************************)
C8_InProgressResumes ==
    [][(Invoked /\ state_file.status = "in_progress") =>
           /\ remote' = remote
           /\ state_file'.backup_folder_id = state_file.backup_folder_id
           /\ stack' = <<>>]_vars

(***************************************************************************)
(* C9.  Tree mirroring: when a new run in which no remote call failed and  *)
(* cancellation was never requested has returned, every source folder and  *)
(* file has exactly one destination object, placed under the destination   *)
(* of its source parent, and a completion record that names it, and the    *)
(* status is completed.                                                    *)
(***************************************************************************)
DestinationOfParent(i) ==
    IF SourceParent(i) = SOURCE_FOLDER_ID
    THEN state_file.backup_folder_id
    ELSE log_file[SourceParent(i)]

C9_TreeMirrored ==
    pc = "done" =>
        /\ state_file.status = "completed"
        /\ Cardinality(DestinationsOf(SOURCE_FOLDER_ID)) = 1
        /\ \A i \in Folders \cup Files :
              /\ i \in DOMAIN log_file
              /\ Cardinality(DestinationsOf(i)) = 1
              /\ \A o \in DestinationsOf(i) :
                    /\ o.id = log_file[i]
                    /\ SourceParent(i) \in DOMAIN log_file \cup {SOURCE_FOLDER_ID}
                    /\ o.parent = DestinationOfParent(i)

(***************************************************************************)
(* C10.  A subfolder gets its completion record only after its whole       *)
(* subtree was processed: at the step that records it, every subfolder of  *)
(* it has a completion record and every file of it was dispatched in the   *)
(* batch that just ended.                                                  *)
(***************************************************************************)
C10_FolderAfterSubtree ==
    [][\A d \in Folders :
          (d \notin DOMAIN backup_log /\ d \in DOMAIN backup_log') =>
              /\ \A g \in FoldersOf(d) : g \in DOMAIN backup_log
              /\ \A f \in FilesOf(d) :
                    \E t \in TaskIds : tasks[t].item = f /\ tasks[t].st = "done"]_vars

(***************************************************************************)
(* Vocabulary of the breaker claims (SpecBreaker).                         *)
(***************************************************************************)
\* this step is a call of the named breaker method
Called(op) == ret'.op = op /\ now' = now /\ <<cb, ret, recorded>>' # <<cb, ret, recorded>>
\* how many record_failure calls, of those in history h, fall in the
\* trailing window that ends at t
InWindow(h, t) ==
    Cardinality({i \in 1..Len(h) : h[i] >= t - RATE_LIMIT_WINDOW_SECONDS})
\* seconds since the last record_failure call
Elapsed == now - recorded[Len(recorded)]

(***************************************************************************)
(* C11.  On a breaker that is not HALF_OPEN (the case of C13),            *)
(* record_failure reports a trip, and leaves the breaker OPEN, if and only *)
(* if at least RATE_LIMIT_THRESHOLD failures, the new one included, were   *)
(* recorded in the trailing RATE_LIMIT_WINDOW_SECONDS; the timestamps it   *)
(* keeps are those of that window.                                         *)
(***************************************************************************)
C11_SlidingWindowTrip ==
    [][(Called("record_failure") /\ cb.state # "HALF_OPEN") =>
          /\ ret'.value <=> InWindow(recorded', now) >= RATE_LIMIT_THRESHOLD
          /\ ret'.value => cb'.state = "OPEN"
          /\ (~ret'.value) => cb'.state = cb.state
          /\ \A i \in 1..Len(cb'.failures) :
                 cb'.failures[i] >= now - RATE_LIMIT_WINDOW_SECONDS]_vars

(***************************************************************************)
(* C12.  can_proceed on an OPEN breaker: refused, with the remaining       *)
(* cooldown, while less than cooldown_seconds have passed since the last   *)
(* recorded failure; allowed, and the breaker HALF_OPEN, once              *)
(* cooldown_seconds have passed.                                           *)
(***************************************************************************)
C12_Cooldown ==
    [][(Called("can_proceed") /\ cb.state = "OPEN") =>
          IF Elapsed < cooldown_seconds
          THEN /\ ~ret'.value
               /\ ret'.reason.remaining = cooldown_seconds - Elapsed
               /\ cb' = cb
          ELSE /\ ret'.value
               /\ ret'.reason = NoReason
               /\ cb'.state = "HALF_OPEN"]_vars

\* can_proceed has let a call through exactly cooldown_seconds after the trip
C12_Witness ==
    /\ ret.op = "can_proceed" /\ ret.value
    /\ cb.state = "HALF_OPEN"
    /\ Elapsed = cooldown_seconds

(***************************************************************************)
(* C13.  A failure recorded while the breaker is HALF_OPEN re-trips it:    *)
(* record_failure reports a trip and the breaker is OPEN afterwards.       *)
(***************************************************************************)
C13_HalfOpenRetrips ==
    [][(Called("record_failure") /\ cb.state = "HALF_OPEN") =>
          (ret'.value /\ cb'.state = "OPEN")]_vars

Moves(t) == Len(tasks') = Len(tasks) /\ tasks'[t] # tasks[t]
\* this step is one request of future t to the remote service (with the
\* cancellation flag set the chunk loop of download_file sends none)
Requests(t) ==
    /\ Moves(t)
    /\ \/ tasks[t].st = "dl" /\ ~shutdown_event
       \/ tasks[t].st = "ul" /\ staging[LocalPath(t)] # Absent
\* this step is the return of process_single_file for future t
Returns(t) == Moves(t) /\ tasks[t].st # "done" /\ tasks'[t].st = "done"
\* this step is the breaker trip of future t
Trips(t) ==
    Moves(t) /\ tasks[t].st \in {"dl", "ul"} /\ tasks'[t].st \in {"trip_dl", "trip_ul"}

(***************************************************************************)
(* C15.  A file whose download or upload was refused by the breaker gate   *)
(* makes no request for that step and is recorded in pending_files, not in *)
(* failed_files, when process_single_file returns.                         *)
(***************************************************************************)
C15_GateRecordsPending ==
    [][\A t \in TaskIds :
          (Moves(t) /\ tasks[t].st \in {"refused_dl", "refused_ul"}) =>
              /\ tasks'[t].st = "done"
              /\ remote' = remote
              /\ tasks'[t].result = "pending"
              /\ InPending(state_file', tasks[t].item)
              /\ ~InFailed(state_file', tasks[t].item)]_vars

C17_NoRequestWhileOpen ==
    [][\A t \in TaskIds :
          Requests(t) => ~(cb.state = "OPEN" /\ ~CooldownOver(cb, now))]_vars

(***************************************************************************)
(* C18.  A step whose attempts all failed with rate-limit errors is never  *)
(* recorded in failed_files for running out of attempts while the breaker  *)
(* has not tripped.                                                        *)
(***************************************************************************)
C18_RateLimitNotExhausted ==
    [][\A t \in TaskIds :
          (/\ Returns(t)
           /\ tasks[t].attempt = MAX_RETRIES
           /\ tasks[t].rl = MAX_RETRIES
           /\ cb.state = "CLOSED") =>
              ~(tasks'[t].result = "failed" /\ InFailed(state_file', tasks[t].item))]_vars

(***************************************************************************)
(* C19.  Every attempt of a step has an index below MAX_RETRIES and a      *)
(* failed attempt that is retried raises the index by one, so a step is    *)
(* attempted at most MAX_RETRIES times; a step that failed MAX_RETRIES     *)
(* times with errors other than rate limits, with no cancellation          *)
(* requested, ends with the node in failed_files and the result failure.   *)
(***************************************************************************)
C19_BoundedRetry ==
    [][\A t \in TaskIds :
          /\ (Moves(t) /\ tasks[t].st \in {"dl", "ul"}) =>
                 /\ tasks[t].attempt < MAX_RETRIES
                 /\ tasks'[t].st = tasks[t].st =>
                        tasks'[t].attempt = tasks[t].attempt + 1
          /\ (/\ Returns(t)
              /\ tasks[t].attempt = MAX_RETRIES
              /\ tasks[t].rl = 0
              /\ ~shutdown_event) =>
                 /\ tasks'[t].result = "failed"
                 /\ InFailed(state_file', tasks[t].item)
                 /\ tasks[t].item \notin DOMAIN log_file']_vars

\* an upload that used up its attempts on plain errors was recorded failed
C19_Witness ==
    \E t \in TaskIds :
        /\ tasks[t].result = "failed"
        /\ tasks[t].attempt = MAX_RETRIES
        /\ tasks[t].rl = 0
        /\ tasks[t].local
        /\ InFailed(state_file, tasks[t].item)

(***************************************************************************)
(* C20.  When process_single_file returns success for a file that had no   *)
(* completion record: the record exists, total_files_processed has grown   *)
(* by one, the staging file is gone, and the node is in neither            *)
(* pending_files nor failed_files of the persisted run state.              *)
(***************************************************************************)
C20_SuccessEffects ==
    [][\A t \in TaskIds :
          (Returns(t) /\ tasks'[t].result = "success") =>
              /\ tasks[t].item \in DOMAIN log_file'
              /\ state_file'.total_files_processed =
                     state_file.total_files_processed + 1
              /\ staging'[LocalPath(t)] = Absent
              /\ ~InPending(state_file', tasks[t].item)
              /\ ~InFailed(state_file', tasks[t].item)]_vars

(***************************************************************************)
(* C21.  In every persisted checkpoint no node is in both pending_files    *)
(* and failed_files.                                                       *)
(***************************************************************************)
C21_PendingFailedDisjoint ==
    \A f \in Files : ~(InPending(state_file, f) /\ InFailed(state_file, f))

C23_StatusEdges ==
    [][state_file'.status # state_file.status =>
          <<state_file.status, state_file'.status>> \in
              {<<"new", "in_progress">>, <<"in_progress", "completed">>,
               <<"in_progress", "paused">>, <<"paused", "in_progress">>}]_vars

(***************************************************************************)
(* C24.  When process_single_file returns, whatever the exit path, the     *)
(* staging file of that invocation is not in the staging directory.        *)
(***************************************************************************)
C24_StagingCleanup ==
    [][\A t \in TaskIds :
          Returns(t) => staging'[LocalPath(t)] = Absent]_vars

\* how many staging handles are open through get_file_handle
OpenHandles == pool.opened + pool.listed

\* C25: at every moment the number of staging handles open through
\* get_file_handle is at most MAX_FILE_HANDLES, whatever the number of
\* threads acquiring one (a thread that would exceed the bound waits).
C25_PoolBound == OpenHandles <= MAX_FILE_HANDLES

\* this step is thread w returning from its entry point
StoreReturns(w) == alive' /\ Thr(w).pc = "return" /\ store'.thr[w].pc = "idle"

\* C26: no step, a kill of the process at any point of a state or log
\* save included, leaves in the committed state file or log file anything
\* but its previous content or the complete content being saved; the
\* committed files never hold a partial document, so a load parses them.
C26_AtomicCheckpoint ==
    [][/\ state_file' \in {state_file, state}
       /\ log_file' \in {log_file, backup_log}
       /\ state_file' # Torn
       /\ log_file' # Torn]_vars
\* the process was killed during the temp-file write of a state save,
\* and a later save committed new content
C26_Witness ==
    /\ ~alive
    /\ store.tmp.state = Torn
    /\ state_file # DefaultState
    /\ state_file # Torn

\* C27: an entry point of BackupState whose checkpoint write failed
\* raises to its caller instead of returning normally.
C27_FailureSurfaced ==
    (store.last.op \in StateOps /\ store.last.failed) => store.last.raised

\* C28: when an entry point of BackupState returns normally the state
\* file equals the run state in memory, and when the log checkpoint of a
\* successful file returns, the file's record is in the log file.
C28_CheckpointPerChange ==
    [][\A w \in StoreWorkers :
          StoreReturns(w) =>
             IF Thr(w).op = "save_log"
             THEN log_file' # Torn /\ Thr(w).arg \in DOMAIN log_file'
             ELSE state_file' = state']_vars

\* C29: the entry points run one at a time: at most one thread is
\* inside the with block of each lock, the counter equals the number of
\* increment_processed calls made on it (no update is lost), and every
\* change of the state file writes the run state as it is in memory, with
\* no other thread halfway through a mutation.
C29_Serialized ==
    [][/\ \A w1, w2 \in StoreWorkers :
             (/\ w1 # w2
              /\ store'.thr[w1].pc \notin {"idle", "wait"}
              /\ store'.thr[w2].pc \notin {"idle", "wait"})
             => Which(store'.thr[w1].op) # Which(store'.thr[w2].op)
       /\ alive' => state'.total_files_processed = store'.incs
       /\ state_file' # state_file =>
             /\ state_file' = state'
             /\ \A w \in StoreWorkers : store'.thr[w].pc # "read"]_vars
\* two increment_processed calls overlapped, one waited for the lock,
\* and both are counted
C29_Witness ==
    /\ \E w1, w2 \in StoreWorkers :
          /\ Thr(w1).op = "increment_processed" /\ Thr(w1).pc = "return"
          /\ Thr(w2).op = "increment_processed" /\ Thr(w2).pc = "wait"
          /\ store.last.w = 0
    /\ state.total_files_processed = 1
    /\ state_file.total_files_processed = 1

\* C30: add_pending (add_failed) of a node already in pending_files
\* (failed_files) changes nothing and saves nothing, applying either twice
\* equals applying it once, and remove_from_pending of an absent id leaves
\* pending_files unchanged.
C30_Idempotent ==
    [][/\ \A w \in StoreWorkers :
             (/\ Thr(w).pc = "locked"
              /\ store'.thr[w].pc \in {"mutated", "return"}
              /\ \/ Thr(w).op = "add_pending"
                       /\ Contains(state.pending_files, Thr(w).arg)
                 \/ Thr(w).op = "add_failed"
                       /\ Contains(state.failed_files, Thr(w).arg)
                 \/ Thr(w).op = "remove_from_pending"
                       /\ ~Contains(state.pending_files, Thr(w).arg))
             => state' = state
       /\ \A f \in StoreItems :
             /\ add_pending(add_pending(state', f), f) = add_pending(state', f)
             /\ add_failed(add_failed(state', f), f) = add_failed(state', f)
             /\ remove_from_pending(remove_from_pending(state', f), f)
                   = remove_from_pending(state', f)]_vars
\* add_pending of a node that was already pending has returned without
\* saving
C30_Witness ==
    /\ store.last.op = "add_pending"
    /\ ~store.last.saved
    /\ ~store.last.failed
    /\ Contains(state.pending_files, store.last.arg)

\* C31: once the cancellation flag is set no worker begins a new unit of
\* work, and an attempt that ends with the flag set is the worker's last:
\* the worker leaves the retry loop instead of beginning another attempt.
C31_CooperativeCancel ==
    [][\A t \in TaskIds :
          (shutdown_event /\ Moves(t)) =>
             /\ tasks[t].st = "queued" => tasks'[t].st \in {"done", "cancelled"}
             /\ tasks[t].st \in {"dl", "ul"} => tasks'[t].st \notin {"dl", "ul"}]_vars

\* C32: a file that fails without tripping the breaker changes nothing
\* for the other files of its batch; and a batch that returns with the
\* cancellation flag not set has run every one of its files to success,
\* skip or failure, after which the walk goes on.
C32_FailureDoesNotAbort ==
    [][/\ \A t \in TaskIds :
             (Returns(t) /\ tasks'[t].result = "failed") =>
                /\ \A u \in TaskIds \ {t} : tasks'[u] = tasks[u]
                /\ pc' = pc
                /\ shutdown_event' = shutdown_event
       /\ (pc = "batch_exit" /\ pc' # "batch_exit" /\ alive' /\ ~shutdown_event) =>
             /\ \A t \in TaskIds :
                   /\ tasks[t].st = "done"
                   /\ tasks[t].result \in {"success", "skipped", "failed"}
             /\ pc' \in {"walk", "finish_new"}]_vars
\* the batch of folder A has returned to the walk with its first file
\* failed and its second file backed up
C32_Witness ==
    /\ pc = "walk"
    /\ ~shutdown_event
    /\ Len(tasks) = 2
    /\ tasks[1].result = "failed"
    /\ tasks[2].result = "success"

C34_BatchReturns == (pc = "batch") ~> (pc \notin {"batch", "batch_exit"})

\* C35: a completion record, once in the log file, is never removed and
\* never replaced by a record naming another destination.
C35_LogAppendOnly ==
    [][\A i \in DOMAIN log_file :
          i \in DOMAIN log_file' /\ log_file'[i] = log_file[i]]_vars

\* the destination folders the walk creates in this step
CreatedFolders == {o \in remote' \ remote : o.id[1] \in Folders}
\* the folders listed before d in the folder d is in
EarlierSiblings(d) ==
    LET sibs == SelectSeqIn(Children(SourceParent(d)), Folders)
    IN  {sibs[i] : i \in {i \in 1..Len(sibs) :
                            \E j \in 1..Len(sibs) : i < j /\ sibs[j] = d}}

\* C36: when the walker creates the destination of a folder, no worker
\* of an earlier batch is queued or running, every file of every earlier
\* sibling folder has been run to its end (recorded as backed up or as
\* failed), and the destination of the folder's parent exists already.
C36_WalkOrder ==
    [][\A o \in CreatedFolders :
          /\ \A t \in TaskIds : IsFinished(t)
          /\ \A F \in EarlierSiblings(o.id[1]) : \A f \in FilesOf(F) :
                f \in DOMAIN backup_log \/ InFailed(state, f)
          /\ \E x \in remote : x.id = o.parent]_vars
\* folder B's destination exists, created after the batch of its earlier
\* sibling A had backed up f1
C36_Witness ==
    /\ tree = "siblings"
    /\ \E o \in remote : o.id[1] = "B" /\ o.content = "folder"
    /\ "f1" \in DOMAIN log_file
    /\ "f2" \notin DOMAIN log_file

\* C37: for every attempt below MAX_RETRIES the backoff with jitter lies
\* between half and one and a half times base = min(INITIAL_BACKOFF *
\* 2^attempt, MAX_BACKOFF) and does not exceed MAX_BACKOFF; without jitter
\* it equals base.
C37_BackoffBounds ==
    (backoff.result # NoTime /\ backoff.attempt < MAX_RETRIES) =>
       LET base == Min(INITIAL_BACKOFF * (2 ^ backoff.attempt), MAX_BACKOFF)
       IN  IF backoff.jitter
           THEN /\ 2 * backoff.result >= base * BackoffUnit
                /\ 2 * backoff.result <= 3 * base * BackoffUnit
                /\ backoff.result <= MAX_BACKOFF * BackoffUnit
           ELSE backoff.result = base * BackoffUnit
\* the last retry's backoff was computed with the largest jitter
C37_Witness ==
    /\ backoff.attempt = MAX_RETRIES - 1
    /\ backoff.jitter
    /\ backoff.k = RandomSteps - 1
    /\ backoff.result # NoTime

\* C38: no two workers that run at the same time use the same staging
\* path.
C38_DistinctStagingPaths ==
    \A t, u \in TaskIds :
       (t # u /\ IsRunning(t) /\ IsRunning(u)) => LocalPath(t) # LocalPath(u)

\* C39: an OPEN breaker stays OPEN or becomes HALF_OPEN, never CLOSED;
\* it becomes HALF_OPEN only in a can_proceed call made once the cooldown
\* has elapsed since the last failure; and a record_success that arrives
\* while it is OPEN changes nothing, its failure window included.
C39_OpenNeverCloses ==
    [][cb.state = "OPEN" =>
          /\ cb'.state \in {"OPEN", "HALF_OPEN"}
          /\ cb'.state = "HALF_OPEN" =>
                /\ ret'.op = "can_proceed"
                /\ ret'.value
                /\ now - cb.last_failure_time >= cooldown_seconds
          /\ (ret'.op = "record_success" /\ ret' # ret) => cb' = cb]_vars
\* record_success was called on an OPEN breaker, which is still OPEN with
\* its window of failures
C39_Witness ==
    /\ ret.op = "record_success"
    /\ cb.state = "OPEN"
    /\ Len(cb.failures) >= RATE_LIMIT_THRESHOLD

\* C40: with every remote call returning and every thread scheduled,
\* an invocation of smart_backup that has started the walk or a retry
\* batch returns; when it does no worker is left queued or running, and
\* the persisted status is completed or paused.
C40_Termination ==
    (alive /\ pc \notin {"ready", "done"}) ~>
       (/\ pc = "done"
        /\ \A t \in TaskIds : tasks[t].st \in {"done", "cancelled"}
        /\ state_file.status \in {"completed", "paused"})

====
